---- MODULE Spec2Model ----
(***************************************************************************)
(* State machine of NetworkModule (server_frontend/js/modules/network.js): *)
(* the cumulative node/edge lists of the relation-graph explorer, the set  *)
(* of expanded nodes, the sessionStorage entry, the backend requests in    *)
(* flight and the d3 link force the edge list is handed to.                *)
(*                                                                         *)
(* One action per handler.  A handler runs to completion except at its     *)
(* await on the backend, so each async handler is two actions: the part up *)
(* to the await (the request joins `pending`) and the continuation that    *)
(* runs when the request settles, together with the continuation of the    *)
(* caller awaiting it.                                                     *)
(***************************************************************************)
EXTENDS Integers, Sequences, FiniteSets, TLC

VARIABLES
    nodes,          \* this.networkData.nodes
    edges,          \* this.networkData.edges
    hasNetworkData, \* this.networkData is an object holding the two lists
    expandedNodes,  \* this.expandedNodes
    storage,        \* sessionStorage entry 'networkState'
    quotaExceeded,  \* sessionStorage.setItem throws (no room, or writes disabled)
    pending,        \* backend requests awaited by expandNode / showRelatedBooks
    display,        \* node ids drawn in the svg group this.g
    loading,        \* the loading overlay is shown
    linksAliased,   \* the link force's array is this.networkData.edges itself
    staleLinks,     \* else: the entries of the force's array still holding ids
    dragging,       \* the id of the node a drag gesture holds, "-" for none
    now,            \* Date.now()
    steps,          \* number of handlers run so far
    last            \* history: the handler that ran last

vars == <<nodes, edges, hasNetworkData, expandedNodes, storage,
          quotaExceeded, pending, display, loading, linksAliased,
          staleLinks, dragging, now, steps, last>>

----------------------------------------------------------------------------
(* Bounds of the model *)

\* The number of handlers a behaviour runs.
MaxSteps == 6

\* The number of backend requests in flight at once.
MaxPending == 2

(* restoreNetworkState: const oneHour = 60 * 60 * 1000 *)
oneHour == 60 * 60 * 1000

\* The time between one page load and the next.
ReloadDelays == {1, oneHour - 1}

----------------------------------------------------------------------------
(* The backend *)

Subjects == {"S1", "N1", "N2"}
Books == {"B1", "B2"}
Ids == Subjects \cup Books

SubjectOrder == <<"S1", "N1", "N2">>

\* The nodes the user opens the context menu of to expand them or to fetch
\* their books; the books are only ever removed.
Queried == {"S1", "N1"}

\* The seed candidates the user picks: the response for S1 lists every
\* subject, the response for N2 does not list S1.
Seeds == {"S1", "N2"}

\* The node expandNode is called with on its own.
Direct == {"S1"}

OthersOf(n) == SelectSeq(SubjectOrder, LAMBDA s : s # n)

NodeType(id) == IF id \in Books THEN "book" ELSE "subject"

\* A node as the backend sends it: no layout fields yet.  pos tells that
\* the simulation has given the node its index, x, y, vx, vy; fx is the
\* state of the fields fx, fy the drag handlers write: "unset", "number"
\* or "null".
FetchedNode(id, type, label, definition) ==
    [node_id |-> id, type |-> type, label |-> label, definition |-> definition,
     node_type |-> NodeType(id), pos |-> FALSE, fx |-> "unset"]

\* An edge as the backend sends it: both endpoints are plain ids.
FetchedEdge(s, t, rel) ==
    [source |-> s, target |-> t, sform |-> "id", tform |-> "id",
     relation_type |-> rel]

\* GET /network/node/{n}/neighbors, as the backend answers it for each node.
\* Every response tags the queried node "current" and the others "neighbor",
\* and labels its copies in its own way.  S1 is the centre of a star; the
\* response for N1 lists S1 twice and the edge between them in both
\* orientations; the response for N2 is a single edge.
NeighborData(n) ==
    CASE n = "S1" ->
           [nodes |-> << FetchedNode("S1", "current", "A", "dA"),
                         FetchedNode("N1", "neighbor", "A", "dA"),
                         FetchedNode("N2", "neighbor", "A", "dA") >>,
            edges |-> << FetchedEdge("S1", "N1", "related"),
                         FetchedEdge("S1", "N2", "related") >>]
      [] n = "N1" ->
           [nodes |-> << FetchedNode("N1", "current", "B", "dB"),
                         FetchedNode("S1", "neighbor", "B", "dB"),
                         FetchedNode("S1", "neighbor", "B", "dB") >>,
            edges |-> << FetchedEdge("N1", "S1", "broader"),
                         FetchedEdge("S1", "N1", "related") >>]
      [] OTHER ->
           [nodes |-> << FetchedNode("N2", "current", "C", "dC"),
                         FetchedNode("N1", "neighbor", "C", "dC") >>,
            edges |-> << FetchedEdge("N2", "N1", "narrower") >>]

\* result.data.books of getSubjectRelatedBooks for each subject: the isbn
\* list.  The list of N1 names a book twice.
BookData(n) ==
    CASE n = "S1" -> << "B1", "B2" >>
      [] n = "N1" -> << "B1", "B1" >>
      [] OTHER -> << "B2" >>

----------------------------------------------------------------------------
(* Views of the graph state *)

NodeIds(ns) == {ns[i].node_id : i \in 1..Len(ns)}

HasNode(ns, id) == \E i \in 1..Len(ns) : ns[i].node_id = id

\* A node without its transient layout fields.
NodeModel(n) ==
    [node_id |-> n.node_id, type |-> n.type, label |-> n.label,
     definition |-> n.definition, node_type |-> n.node_type]

\* An edge as endpoint ids and relation type, whatever form the endpoints have.
EdgeModel(e) ==
    [source |-> e.source, target |-> e.target, relation_type |-> e.relation_type]

GraphView(ns, es, ex) ==
    [nodes |-> [i \in 1..Len(ns) |-> NodeModel(ns[i])],
     edges |-> [i \in 1..Len(es) |-> EdgeModel(es[i])],
     expandedNodes |-> ex]

NoView == [nodes |-> <<>>, edges |-> <<>>, expandedNodes |-> {"-"}]

NoEntry ==
    [present |-> FALSE, nodes |-> <<>>, edges |-> <<>>, expandedNodes |-> {},
     timestamp |-> 0]

----------------------------------------------------------------------------
(* expandNode / showRelatedBooks: merging a response *)

\* A merge that pushes every fetched node without looking for its id.
MergeNodesNoFind(ns, incoming) == ns \o incoming

\* A merge that lets the fetched copy replace the node that has its id.
RECURSIVE MergeNodesOverwrite(_, _)
MergeNodesOverwrite(ns, incoming) ==
    IF incoming = <<>> THEN ns
    ELSE LET n == Head(incoming) IN
         MergeNodesOverwrite(
            IF HasNode(ns, n.node_id)
            THEN [i \in 1..Len(ns) |-> IF ns[i].node_id = n.node_id THEN n ELSE ns[i]]
            ELSE Append(ns, n),
            Tail(incoming))

\* networkData.nodes.find(n => n.node_id === node.node_id), then push.
RECURSIVE MergeNodes(_, _)
MergeNodes(ns, incoming) ==
    IF incoming = <<>> THEN ns
    ELSE MergeNodes(IF HasNode(ns, Head(incoming).node_id)
                    THEN ns
                    ELSE Append(ns, Head(incoming)),
                    Tail(incoming))

\* e.source === edge.source, where edge comes from the backend (a string):
\* an endpoint the link force has replaced by a node object is never equal.
StrictEq(form, id, str) == form = "id" /\ id = str

\* The predicate of networkData.edges.find in expandNode.
EdgeMatches(e, edge) ==
    \/ StrictEq(e.sform, e.source, edge.source) /\ StrictEq(e.tform, e.target, edge.target)
    \/ StrictEq(e.sform, e.source, edge.target) /\ StrictEq(e.tform, e.target, edge.source)

EdgeFound(es, edge) == \E i \in 1..Len(es) : EdgeMatches(es[i], edge)

\* A merge that lets the fetched edges take the place of the list.
MergeEdgesReplace(es, incoming) == incoming

RECURSIVE MergeEdges(_, _)
MergeEdges(es, incoming) ==
    IF incoming = <<>> THEN es
    ELSE MergeEdges(IF EdgeFound(es, Head(incoming))
                    THEN es
                    ELSE Append(es, Head(incoming)),
                    Tail(incoming))

\* A forEach that tests the node only: the edge is pushed for every book.
RECURSIVE MergeBooksEdgeForEveryBook(_, _, _, _)
MergeBooksEdgeForEveryBook(ns, es, nodeId, books) ==
    IF books = <<>> THEN [nodes |-> ns, edges |-> es]
    ELSE LET isbn == Head(books)
             es1 == Append(es, FetchedEdge(nodeId, isbn, "subject_book"))
         IN
         IF HasNode(ns, isbn)
         THEN MergeBooksEdgeForEveryBook(ns, es1, nodeId, Tail(books))
         ELSE MergeBooksEdgeForEveryBook(
                  Append(ns, FetchedNode(isbn, "neighbor", "T", "")),
                  es1, nodeId, Tail(books))

\* The forEach of showRelatedBooks: a book node and its subject-book edge
\* for every isbn that is not a node id yet.
RECURSIVE MergeBooks(_, _, _, _)
MergeBooks(ns, es, nodeId, books) ==
    IF books = <<>> THEN [nodes |-> ns, edges |-> es]
    ELSE LET isbn == Head(books) IN
         IF HasNode(ns, isbn)
         THEN MergeBooks(ns, es, nodeId, Tail(books))
         ELSE MergeBooks(Append(ns, FetchedNode(isbn, "neighbor", "T", "")),
                         Append(es, FetchedEdge(nodeId, isbn, "subject_book")),
                         nodeId, Tail(books))

----------------------------------------------------------------------------
(* The d3 link force: simulation.nodes(...) and force('link').links(...) *)

HasIdEndpoint(e) == e.sform = "id" \/ e.tform = "id"

\* One link of the force's initialize(): an endpoint that is not an object
\* is replaced by the node with that id; a missing node throws.
ConvertEdge(e, ids) ==
    IF e.sform = "id" /\ e.source \notin ids
    THEN [e |-> e, threw |-> TRUE]
    ELSE LET e1 == [e EXCEPT !.sform = IF @ = "id" THEN "ref" ELSE @] IN
         IF e1.tform = "id" /\ e1.target \notin ids
         THEN [e |-> e1, threw |-> TRUE]
         ELSE [e |-> [e1 EXCEPT !.tform = IF @ = "id" THEN "ref" ELSE @],
               threw |-> FALSE]

\* initialize() over the array es, in order, stopping at the first throw.
RECURSIVE LinkInit(_, _, _)
LinkInit(es, ids, i) ==
    IF i > Len(es) THEN [edges |-> es, threw |-> FALSE]
    ELSE LET c == ConvertEdge(es[i], ids) IN
         IF c.threw
         THEN [edges |-> [es EXCEPT ![i] = c.e], threw |-> TRUE]
         ELSE LinkInit([es EXCEPT ![i] = c.e], ids, i + 1)

\* An entry of an array the force still holds after networkData.edges was
\* replaced: the edge object is either still in networkData.edges (cur, at
\* index i) or only in the old array (e).
StaleCur(i) == [cur |-> TRUE, i |-> i, e |-> FetchedEdge("-", "-", "-")]
StaleOld(e) == [cur |-> FALSE, i |-> 0, e |-> e]

StaleEdge(st, es) == IF st.cur THEN es[st.i] ELSE st.e

\* initialize() over the old array.
RECURSIVE StaleInit(_, _, _, _)
StaleInit(stale, es, ids, k) ==
    IF k > Len(stale) THEN [edges |-> es, stale |-> stale, threw |-> FALSE]
    ELSE LET c == ConvertEdge(StaleEdge(stale[k], es), ids)
             es1 == IF stale[k].cur THEN [es EXCEPT ![stale[k].i] = c.e] ELSE es
             st1 == IF stale[k].cur THEN stale
                    ELSE [stale EXCEPT ![k] = StaleOld(c.e)]
         IN IF c.threw
            THEN [edges |-> es1, stale |-> st1, threw |-> TRUE]
            ELSE StaleInit(st1, es1, ids, k + 1)

\* Entries whose endpoints are all objects are never looked up again.
PruneStale(stale, es) ==
    SelectSeq(stale, LAMBDA st : HasIdEndpoint(StaleEdge(st, es)))

\* The array the force holds once networkData.edges is replaced by a new
\* array that shares none of its edge objects (selectSeedNode, resetNetwork,
\* a fresh simulation).
RECURSIVE AllOld(_)
AllOld(es) ==
    IF es = <<>> THEN <<>>
    ELSE (IF HasIdEndpoint(Head(es)) THEN << StaleOld(Head(es)) >> ELSE <<>>)
         \o AllOld(Tail(es))

DetachAll(aliased, stale, es) ==
    IF aliased THEN AllOld(es)
    ELSE [k \in 1..Len(stale) |-> StaleOld(StaleEdge(stale[k], es))]

\* removeNode matching an endpoint by plain id only.
KeepsEdgePlainIdsOnly(e, nodeId) ==
    /\ ~(e.sform = "id" /\ e.source = nodeId)
    /\ ~(e.tform = "id" /\ e.target = nodeId)

\* The predicate of the edge filter of removeNode: the endpoint id is read
\* from the node object (typeof e.source === 'object') or is the plain id.
KeepsEdge(e, nodeId) == e.source # nodeId /\ e.target # nodeId

\* Number of edges among the first i that removeNode keeps.
RECURSIVE KeptBefore(_, _, _)
KeptBefore(es, nodeId, i) ==
    IF i = 0 THEN 0
    ELSE KeptBefore(es, nodeId, i - 1) + (IF KeepsEdge(es[i], nodeId) THEN 1 ELSE 0)

\* The array the force holds once removeNode has replaced networkData.edges
\* by its filtered copy: kept edge objects are shared with the new array.
RECURSIVE FilterOld(_, _, _)
FilterOld(es, nodeId, i) ==
    IF i > Len(es) THEN <<>>
    ELSE (IF ~HasIdEndpoint(es[i]) THEN <<>>
          ELSE IF KeepsEdge(es[i], nodeId)
               THEN << StaleCur(KeptBefore(es, nodeId, i)) >>
               ELSE << StaleOld(es[i]) >>)
         \o FilterOld(es, nodeId, i + 1)

DetachFiltered(aliased, stale, es, nodeId) ==
    IF aliased THEN FilterOld(es, nodeId, 1)
    ELSE [k \in 1..Len(stale) |->
            IF ~stale[k].cur THEN stale[k]
            ELSE IF KeepsEdge(es[stale[k].i], nodeId)
                 THEN StaleCur(KeptBefore(es, nodeId, stale[k].i))
                 ELSE StaleOld(es[stale[k].i])]

\* simulation.nodes(ns): initializeNodes gives every node its layout fields.
Positioned(ns) == [i \in 1..Len(ns) |-> [ns[i] EXCEPT !.pos = TRUE]]

\* updateNetworkVisualization: redraw this.g from the lists, then
\* simulation.nodes(nodes), which re-initializes the link force over the
\* array it holds, then force('link').links(edges).
UpdateNetworkVisualization(ns, es, aliased, stale) ==
    LET ids == NodeIds(ns)
        a == IF aliased
             THEN LET r == LinkInit(es, ids, 1)
                  IN [edges |-> r.edges, stale |-> <<>>, threw |-> r.threw]
             ELSE StaleInit(stale, es, ids, 1)
        b == LinkInit(a.edges, ids, 1)
    IN IF a.threw
       THEN [nodes |-> Positioned(ns), edges |-> a.edges, display |-> ids,
             aliased |-> aliased, stale |-> PruneStale(a.stale, a.edges),
             threw |-> TRUE]
       ELSE [nodes |-> Positioned(ns), edges |-> b.edges, display |-> ids,
             aliased |-> TRUE, stale |-> <<>>, threw |-> b.threw]

----------------------------------------------------------------------------
(* sessionStorage *)

\* JSON.stringify: an endpoint that is a node object is written as a copy of
\* that node; JSON.parse gives back an object that is no node of the list.
SerializeEdge(e) ==
    [e EXCEPT !.sform = IF @ = "ref" THEN "copy" ELSE @,
              !.tform = IF @ = "ref" THEN "copy" ELSE @]

\* An entry written without the expanded set (a Set handed to JSON.stringify
\* as it is comes out as {}).
SavedStateWithoutExpanded(ns, es, ex, t) ==
    [present |-> TRUE,
     nodes |-> ns,
     edges |-> [i \in 1..Len(es) |-> SerializeEdge(es[i])],
     expandedNodes |-> {},
     timestamp |-> t]

\* saveNetworkState: the entry written by sessionStorage.setItem.
SavedState(ns, es, ex, t) ==
    [present |-> TRUE,
     nodes |-> ns,
     edges |-> [i \in 1..Len(es) |-> SerializeEdge(es[i])],
     expandedNodes |-> ex,
     timestamp |-> t]

\* A restore that tests only that the timestamp is not in the future.
FreshWithoutExpiry(entry, t) == t - entry.timestamp >= 0

\* A saveNetworkState without its try/catch.
SaveNetworkStateUncaught(old, ns, es, ex, t, full) ==
    [storage |-> IF full THEN old ELSE SavedState(ns, es, ex, t),
     threw |-> full]

\* saveNetworkState with the entry `old` in the storage: setItem throws
\* when the storage is full, the catch logs a warning and the entry stays
\* what it was; nothing is thrown to the caller.
SaveNetworkState(old, ns, es, ex, t, full) ==
    [storage |-> IF full THEN old ELSE SavedState(ns, es, ex, t),
     threw |-> FALSE]

\* restoreNetworkState: Date.now() - state.timestamp < oneHour
Fresh(entry, t) == t - entry.timestamp < oneHour

----------------------------------------------------------------------------
(* Requests in flight and the history variable *)

\* A request awaited by expandNode (kind "neighbors") or showRelatedBooks
\* (kind "books").  via names the caller whose continuation follows the
\* await; afterReset records that resetNetwork ran since it was sent,
\* afterSeed that selectSeedNode was called since it was sent.
Request(kind, nodeId, via) ==
    [kind |-> kind, nodeId |-> nodeId, via |-> via, afterReset |-> FALSE,
     afterSeed |-> FALSE]

RemoveAt(seq, i) == SubSeq(seq, 1, i - 1) \o SubSeq(seq, i + 1, Len(seq))

\* The handler that ran last.  pre is the graph state before the handler,
\* recorded for the handlers that send a request, and the graph state of
\* the entry read, recorded for a page load; prev is the handler that ran
\* before it.  age is Date.now() - state.timestamp as restoreNetworkState
\* computes it (-1 when it computes none); writeFailed tells that
\* sessionStorage.setItem threw in saveNetworkState; query is the text
\* of the seed-query field searchSeedNode read; error tells that the
\* handler called showError; afterSeed is the flag of the request settled.
Ran(op, id, via, afterReset, threw, pre, prev) ==
    [op |-> op, id |-> id, via |-> via, afterReset |-> afterReset,
     threw |-> threw, pre |-> pre, prev |-> prev, age |-> -1,
     writeFailed |-> FALSE, query |-> <<>>, error |-> FALSE,
     afterSeed |-> FALSE]

Did(op, id) == Ran(op, id, "-", FALSE, FALSE, NoView, <<>>)

\* What expandNode(n) called on its own records of the handler before it:
\* a successful expandNode(n), or a page load whose restore failed.
Before(n, l) ==
    IF \/ l.op = "neighborsOk" /\ l.id = n /\ l.via = "direct"
       \/ l.op = "restoreFailed"
    THEN <<l.op, l.id, l.via>>
    ELSE <<>>

----------------------------------------------------------------------------
(* The handlers *)

\* Every handler counts against the bound of the behaviour.
Counted == steps < MaxSteps /\ steps' = steps + 1

Init ==
    /\ nodes = <<>>
    /\ edges = <<>>
    /\ hasNetworkData = TRUE
    /\ expandedNodes = {}
    /\ storage = NoEntry
    /\ quotaExceeded \in BOOLEAN
    /\ pending = <<>>
    /\ display = {}
    /\ loading = FALSE
    /\ linksAliased = FALSE
    /\ staleLinks = <<>>
    /\ dragging = "-"
    /\ now = 0
    /\ steps = 0
    /\ last = Did("init", "-")

\* selectSeedNode up to the await inside expandNode.
SelectSeedNode(n) ==
    /\ Counted
    /\ UNCHANGED <<quotaExceeded, dragging>>
    /\ loading' = TRUE
    /\ Len(pending) < MaxPending
    /\ nodes' = <<>>
    /\ edges' = <<>>
    /\ hasNetworkData' = TRUE
    /\ expandedNodes' = {n}
    /\ linksAliased' = FALSE
    /\ staleLinks' = DetachAll(linksAliased, staleLinks, edges)
    /\ pending' = Append([k \in 1..Len(pending) |->
                              [pending[k] EXCEPT !.afterSeed = TRUE]],
                          Request("neighbors", n, "seed"))
    /\ last' = Ran("selectSeedNode", n, "seed", FALSE, FALSE, NoView, <<>>)
    /\ UNCHANGED <<storage, display, now>>

\* expandNode called on its own, up to the await.  Its first statement
\* reads this.networkData.nodes.length, which throws when networkData is
\* not the pair of lists: no request is sent then.
ExpandNode(n) ==
    /\ Counted
    /\ UNCHANGED <<quotaExceeded, dragging>>
    /\ IF hasNetworkData
       THEN /\ Len(pending) < MaxPending
            /\ loading' = TRUE
            /\ pending' = Append(pending, Request("neighbors", n, "direct"))
            /\ last' = Ran("expandNode", n, "direct", FALSE, FALSE,
                           GraphView(nodes, edges, expandedNodes),
                           Before(n, last))
       ELSE /\ pending' = pending
            /\ UNCHANGED loading
            /\ last' = Ran("expandNodeThrew", n, "direct", FALSE, TRUE, NoView,
                           Before(n, last))
    /\ UNCHANGED <<nodes, edges, expandedNodes, storage, display,
                   linksAliased, staleLinks, now, hasNetworkData>>

\* An expandNodeFromMenu without the test of expandedNodes.
ExpandNodeFromMenuUnguarded(n) ==
    /\ Counted
    /\ UNCHANGED <<quotaExceeded, dragging>>
    /\ n \in display
    /\ Len(pending) < MaxPending
    /\ loading' = TRUE
    /\ expandedNodes' = expandedNodes \cup {n}
    /\ pending' = Append(pending, Request("neighbors", n, "menu"))
    /\ last' = Ran("expandNodeFromMenu", n, "menu", FALSE, FALSE,
                   GraphView(nodes, edges, expandedNodes), <<>>)
    /\ UNCHANGED <<nodes, edges, storage, display, linksAliased, staleLinks,
                   now, hasNetworkData>>

\* expandNodeFromMenu up to the await inside expandNode; nothing happens
\* when the node is in expandedNodes already.
ExpandNodeFromMenu(n) ==
    /\ Counted
    /\ UNCHANGED <<quotaExceeded, dragging>>
    /\ n \in display
    /\ IF n \in expandedNodes
       THEN /\ last' = Did("expandNodeFromMenuSkipped", n)
            /\ UNCHANGED <<expandedNodes, pending, loading>>
       ELSE /\ Len(pending) < MaxPending
            /\ loading' = TRUE
            /\ expandedNodes' = expandedNodes \cup {n}
            /\ pending' = Append(pending, Request("neighbors", n, "menu"))
            /\ last' = Ran("expandNodeFromMenu", n, "menu", FALSE, FALSE,
                           GraphView(nodes, edges, expandedNodes), <<>>)
    /\ UNCHANGED <<nodes, edges, storage, display, linksAliased, staleLinks,
                   now, hasNetworkData>>

\* The success branch of expandNode for the response of node n, applied to
\* the lists and the link force as they are: both forEach loops, then
\* updateNetworkVisualization.
MergeNeighbors(ns, es, aliased, stale, n) ==
    UpdateNetworkVisualization(MergeNodes(ns, NeighborData(n).nodes),
                               MergeEdges(es, NeighborData(n).edges),
                               aliased, stale)

\* expandNode from the await on, the request having succeeded, followed by
\* the caller's saveNetworkState.  A throw of the link force
\* leaves the handler before any save.
NeighborsSucceed(i) ==
    /\ Counted
    /\ UNCHANGED <<quotaExceeded, dragging>>
    /\ i \in 1..Len(pending)
    /\ pending[i].kind = "neighbors"
    /\ LET req == pending[i]
           v == MergeNeighbors(nodes, edges, linksAliased, staleLinks,
                               req.nodeId)
           sv == SaveNetworkState(storage, v.nodes, v.edges, expandedNodes,
                                  now, quotaExceeded)
       IN /\ nodes' = v.nodes
          /\ edges' = v.edges
          /\ display' = v.display
          /\ linksAliased' = v.aliased
          /\ staleLinks' = v.stale
          /\ storage' = IF v.threw THEN storage ELSE sv.storage
          /\ loading' = IF v.threw \/ sv.threw THEN loading ELSE FALSE
          /\ last' = [Ran("neighborsOk", req.nodeId, req.via, req.afterReset,
                          v.threw \/ sv.threw, NoView, <<>>)
                      EXCEPT !.writeFailed = ~v.threw /\ quotaExceeded,
                             !.afterSeed = req.afterSeed]
    /\ pending' = RemoveAt(pending, i)
    /\ UNCHANGED <<expandedNodes, now, hasNetworkData>>

\* expandNode from the await on, the request having failed: showError, then
\* the caller's saveNetworkState.
NeighborsFail(i) ==
    /\ Counted
    /\ UNCHANGED <<quotaExceeded, dragging>>
    /\ loading' = FALSE
    /\ i \in 1..Len(pending)
    /\ pending[i].kind = "neighbors"
    /\ LET saves == pending[i].via \in {"seed", "menu"}
           sv == SaveNetworkState(storage, nodes, edges, expandedNodes, now,
                                  quotaExceeded)
       IN /\ storage' = IF saves THEN sv.storage ELSE storage
          /\ last' = [Ran("neighborsFail", pending[i].nodeId, pending[i].via,
                          pending[i].afterReset, saves /\ sv.threw, NoView,
                          <<>>)
                      EXCEPT !.writeFailed = saves /\ quotaExceeded,
                             !.error = TRUE]
    /\ pending' = RemoveAt(pending, i)
    /\ UNCHANGED <<nodes, edges, expandedNodes, display, linksAliased,
                   staleLinks, now, hasNetworkData>>

\* showRelatedBooks up to the await.
ShowRelatedBooks(n) ==
    /\ Counted
    /\ UNCHANGED <<quotaExceeded, dragging>>
    /\ loading' = TRUE
    /\ Len(pending) < MaxPending
    /\ n \in display
    /\ n \in Subjects
    /\ pending' = Append(pending, Request("books", n, "books"))
    /\ last' = Ran("showRelatedBooks", n, "books", FALSE, FALSE,
                   GraphView(nodes, edges, expandedNodes), <<>>)
    /\ UNCHANGED <<nodes, edges, expandedNodes, storage, display,
                   linksAliased, staleLinks, now, hasNetworkData>>

\* showRelatedBooks from the await on, the request having succeeded with a
\* book list.  A throw of the link force is caught and shown as an error.
BooksSucceed(i) ==
    /\ Counted
    /\ UNCHANGED <<quotaExceeded, dragging>>
    /\ loading' = FALSE
    /\ i \in 1..Len(pending)
    /\ pending[i].kind = "books"
    /\ LET req == pending[i]
           m == MergeBooks(nodes, edges, req.nodeId, BookData(req.nodeId))
           v == UpdateNetworkVisualization(m.nodes, m.edges, linksAliased, staleLinks)
           sv == SaveNetworkState(storage, v.nodes, v.edges, expandedNodes,
                                  now, quotaExceeded)
       IN /\ nodes' = v.nodes
          /\ edges' = v.edges
          /\ display' = v.display
          /\ linksAliased' = v.aliased
          /\ staleLinks' = v.stale
          /\ storage' = IF v.threw THEN storage ELSE sv.storage
          /\ last' = [Ran("booksOk", req.nodeId, req.via, req.afterReset,
                          v.threw \/ sv.threw, NoView, <<>>)
                      EXCEPT !.writeFailed = ~v.threw /\ quotaExceeded,
                             !.error = v.threw \/ sv.threw,
                             !.afterSeed = req.afterSeed]
    /\ pending' = RemoveAt(pending, i)
    /\ UNCHANGED <<expandedNodes, now, hasNetworkData>>

\* showRelatedBooks from the await on, the request having failed or carrying
\* no book list.
BooksFail(i) ==
    /\ Counted
    /\ UNCHANGED <<quotaExceeded, dragging>>
    /\ loading' = FALSE
    /\ i \in 1..Len(pending)
    /\ pending[i].kind = "books"
    /\ last' = [Ran("booksFail", pending[i].nodeId, pending[i].via,
                    pending[i].afterReset, FALSE, NoView, <<>>)
                EXCEPT !.error = TRUE]
    /\ pending' = RemoveAt(pending, i)
    /\ UNCHANGED <<nodes, edges, expandedNodes, storage, display,
                   linksAliased, staleLinks, now, hasNetworkData>>

\* The filter of removeNode over the nodes.
NodesWithout(ns, nodeId) == SelectSeq(ns, LAMBDA n : n.node_id # nodeId)

\* A filter that tests the source of an edge only.
EdgesWithoutAsSource(es, nodeId) == SelectSeq(es, LAMBDA e : e.source # nodeId)

\* The filter of removeNode over the edges.
EdgesWithout(es, nodeId) == SelectSeq(es, LAMBDA e : KeepsEdge(e, nodeId))

\* removeNode, from the context menu of a drawn node.
RemoveNode(n) ==
    /\ Counted
    /\ UNCHANGED <<quotaExceeded, dragging>>
    /\ n \in display
    /\ LET ns1 == NodesWithout(nodes, n)
           es1 == EdgesWithout(edges, n)
           st1 == DetachFiltered(linksAliased, staleLinks, edges, n)
           v == UpdateNetworkVisualization(ns1, es1, FALSE, st1)
           sv == SaveNetworkState(storage, v.nodes, v.edges,
                                  expandedNodes \ {n}, now, quotaExceeded)
       IN /\ nodes' = v.nodes
          /\ edges' = v.edges
          /\ display' = v.display
          /\ linksAliased' = v.aliased
          /\ staleLinks' = v.stale
          /\ storage' = IF v.threw THEN storage ELSE sv.storage
          /\ last' = [Ran("removeNode", n, "-", FALSE, v.threw \/ sv.threw,
                          NoView, <<>>)
                      EXCEPT !.writeFailed = ~v.threw /\ quotaExceeded]
    /\ expandedNodes' = expandedNodes \ {n}
    /\ UNCHANGED <<pending, now, hasNetworkData, loading>>

\* resetNetwork.  simulation.nodes([]) re-initializes the link force over
\* the array it holds and throws on an endpoint that is still an id; the
\* statements after it, clearNetworkState among them, are then not reached.
ResetNetwork ==
    LET st1 == DetachAll(linksAliased, staleLinks, edges)
        threw == st1 # <<>>
    IN /\ Counted
       /\ UNCHANGED <<quotaExceeded, dragging>>
       /\ UNCHANGED loading
       /\ nodes' = <<>>
       /\ edges' = <<>>
       /\ hasNetworkData' = TRUE
       /\ expandedNodes' = {}
       /\ display' = {}
       /\ linksAliased' = FALSE
       /\ staleLinks' = IF threw THEN st1 ELSE <<>>
       /\ storage' = IF threw THEN storage ELSE NoEntry
       /\ pending' = [k \in 1..Len(pending) |-> [pending[k] EXCEPT !.afterReset = TRUE]]
       /\ last' = Ran("resetNetwork", "-", "-", FALSE, threw, NoView, <<>>)
       /\ UNCHANGED now

\* The text restoreNetworkState finds under 'networkState': the entry as
\* the page before left it, a text JSON.parse rejects, or a parseable
\* entry with a timestamp of the moment and no networkData.
Found == {"kept", "unparseable", "noData"}

\* The page is loaded again d ms later: the constructor, then
\* restoreNetworkState.  The requests of the page before are gone with it.
\* The constructor sets networkData to two empty lists; the adoption
\* replaces it by state.networkData before anything is read from it, and
\* the catch removes the entry without setting networkData again.
Reload(d, found) ==
    /\ Counted
    /\ UNCHANGED quotaExceeded
    /\ dragging' = "-"
    /\ loading' = FALSE
    /\ pending' = <<>>
    /\ now' = now + d
    /\ CASE found = "unparseable" ->
              /\ nodes' = <<>>
              /\ edges' = <<>>
              /\ hasNetworkData' = TRUE
              /\ expandedNodes' = {}
              /\ display' = {}
              /\ linksAliased' = FALSE
              /\ staleLinks' = <<>>
              /\ storage' = NoEntry
              /\ last' = Did("restoreFailed", "unparseable")
         [] found = "noData" ->
              /\ nodes' = <<>>
              /\ edges' = <<>>
              /\ hasNetworkData' = FALSE
              /\ expandedNodes' = {}
              /\ display' = {}
              /\ linksAliased' = FALSE
              /\ staleLinks' = <<>>
              /\ storage' = NoEntry
              /\ last' = [Ran("restoreFailed", "noData", "-", FALSE, TRUE,
                              NoView, <<>>) EXCEPT !.age = 0]
         [] OTHER ->
              LET age == IF storage.present THEN now + d - storage.timestamp
                         ELSE -1
                  read == IF storage.present
                          THEN GraphView(storage.nodes, storage.edges,
                                         storage.expandedNodes)
                          ELSE NoView
              IN
              /\ hasNetworkData' = TRUE
              /\ IF storage.present /\ Fresh(storage, now + d)
                 THEN /\ expandedNodes' = storage.expandedNodes
                      /\ IF Len(storage.nodes) > 0
                         THEN LET v == UpdateNetworkVisualization(
                                          storage.nodes, storage.edges, FALSE, <<>>)
                              IN /\ nodes' = v.nodes
                                 /\ edges' = v.edges
                                 /\ display' = v.display
                                 /\ linksAliased' = v.aliased
                                 /\ staleLinks' = v.stale
                                 /\ storage' = IF v.threw THEN NoEntry ELSE storage
                                 /\ last' = [Ran("restored", "-", "-", FALSE,
                                                 v.threw, read, <<>>)
                                             EXCEPT !.age = age]
                         ELSE /\ nodes' = storage.nodes
                              /\ edges' = storage.edges
                              /\ display' = {}
                              /\ linksAliased' = FALSE
                              /\ staleLinks' = <<>>
                              /\ last' = [Ran("restored", "-", "-", FALSE,
                                              FALSE, read, <<>>)
                                          EXCEPT !.age = age]
                              /\ UNCHANGED storage
                 ELSE /\ nodes' = <<>>
                      /\ edges' = <<>>
                      /\ expandedNodes' = {}
                      /\ display' = {}
                      /\ linksAliased' = FALSE
                      /\ staleLinks' = <<>>
                      /\ storage' = NoEntry
                      /\ last' = [Ran("startedEmpty", "-", "-", FALSE, FALSE,
                                      read, <<>>)
                                  EXCEPT !.age = age]

\* The fields fx, fy of node id written by a drag handler, when the node
\* object the gesture holds is an element of ns.
WithFx(ns, id, fx) ==
    [k \in 1..Len(ns) |-> IF ns[k].node_id = id THEN [ns[k] EXCEPT !.fx = fx]
                          ELSE ns[k]]

\* dragstarted on a drawn node: d.fx = d.x, d.fy = d.y.  The node drawn is
\* an element of networkData.nodes unless selectSeedNode has replaced the
\* lists since the redraw, and then no node of that id is in them.
DragStarted(n) ==
    /\ Counted
    /\ UNCHANGED quotaExceeded
    /\ n \in display
    /\ dragging = "-"
    /\ dragging' = n
    /\ nodes' = WithFx(nodes, n, "number")
    /\ last' = Did("dragstarted", n)
    /\ UNCHANGED <<edges, expandedNodes, storage, pending, display,
                   linksAliased, staleLinks, now, hasNetworkData, loading>>

\* dragged: d.fx = event.x, d.fy = event.y.  The gesture holds the node
\* object it started on; when the lists were replaced since, that object
\* may be no element of networkData.nodes any more (held = FALSE).
Dragged(held) ==
    /\ Counted
    /\ UNCHANGED quotaExceeded
    /\ dragging # "-"
    /\ nodes' = IF held THEN WithFx(nodes, dragging, "number") ELSE nodes
    /\ last' = Did("dragged", dragging)
    /\ UNCHANGED <<edges, expandedNodes, storage, pending, display,
                   linksAliased, staleLinks, dragging, now, hasNetworkData, loading>>

\* dragended: d.fx = null, d.fy = null.
DragEnded(held) ==
    /\ Counted
    /\ UNCHANGED quotaExceeded
    /\ dragging # "-"
    /\ dragging' = "-"
    /\ nodes' = IF held THEN WithFx(nodes, dragging, "null") ELSE nodes
    /\ last' = Did("dragended", dragging)
    /\ UNCHANGED <<edges, expandedNodes, storage, pending, display,
                   linksAliased, staleLinks, now, hasNetworkData, loading>>

\* A reinitialize that starts from the lists of the constructor.
ReinitializeAsConstructed ==
    /\ Counted
    /\ UNCHANGED <<quotaExceeded, dragging>>
    /\ hasNetworkData
    /\ nodes' = <<>>
    /\ edges' = <<>>
    /\ display' = {}
    /\ linksAliased' = FALSE
    /\ staleLinks' = <<>>
    /\ last' = Did("reinitialize", "-")
    /\ UNCHANGED <<expandedNodes, storage, pending, now, hasNetworkData, loading>>

\* The timer of reinitialize: the svg is removed, initializeVisualization
\* builds a new one with a new simulation, whose link force holds no
\* array, and the graph is drawn again when there are nodes.
Reinitialize ==
    /\ Counted
    /\ UNCHANGED <<quotaExceeded, dragging>>
    /\ hasNetworkData
    /\ IF Len(nodes) > 0
       THEN LET v == UpdateNetworkVisualization(nodes, edges, FALSE, <<>>)
            IN /\ nodes' = v.nodes
               /\ edges' = v.edges
               /\ display' = v.display
               /\ linksAliased' = v.aliased
               /\ staleLinks' = v.stale
               /\ last' = Ran("reinitialize", "-", "-", FALSE, v.threw, NoView,
                              <<>>)
       ELSE /\ display' = {}
            /\ linksAliased' = FALSE
            /\ staleLinks' = <<>>
            /\ last' = Did("reinitialize", "-")
            /\ UNCHANGED <<nodes, edges>>
    /\ UNCHANGED <<expandedNodes, storage, pending, now, hasNetworkData, loading>>

\* The texts of the seed-query field, as lists of characters.
Queries == { <<>>, <<" ">>, <<" ", " ">>, <<"q">>, <<" ", "q", " ">> }

Whitespace == {" "}

\* The value of the field taken as it is.
Untrimmed(q) == q

RECURSIVE TrimStart(_)
TrimStart(q) ==
    IF q # <<>> /\ Head(q) \in Whitespace THEN TrimStart(Tail(q)) ELSE q

RECURSIVE TrimEnd(_)
TrimEnd(q) ==
    IF q # <<>> /\ q[Len(q)] \in Whitespace
    THEN TrimEnd(SubSeq(q, 1, Len(q) - 1))
    ELSE q

\* String.prototype.trim
Trim(q) == TrimEnd(TrimStart(q))

\* searchSeedNode up to its await: it returns at once on an empty query.
SearchSeedNode(q) ==
    /\ Counted
    /\ UNCHANGED <<quotaExceeded, dragging>>
    /\ IF Trim(q) = <<>>
       THEN pending' = pending
       ELSE /\ Len(pending) < MaxPending
            /\ pending' = Append(pending, Request("search", "-", "search"))
    /\ last' = [Did("searchSeedNode", "-") EXCEPT !.query = q]
    /\ UNCHANGED <<nodes, edges, expandedNodes, storage, display,
                   linksAliased, staleLinks, now, hasNetworkData, loading>>

\* searchSeedNode from the await on, the request having succeeded:
\* displaySeedCandidates writes the candidates into the page.
SearchSucceeds(i) ==
    /\ Counted
    /\ UNCHANGED <<quotaExceeded, dragging>>
    /\ i \in 1..Len(pending)
    /\ pending[i].kind = "search"
    /\ pending' = RemoveAt(pending, i)
    /\ last' = Did("searchOk", "-")
    /\ UNCHANGED <<nodes, edges, expandedNodes, storage, display,
                   linksAliased, staleLinks, now, hasNetworkData, loading>>

\* searchSeedNode from the await on, the request having failed: showError.
SearchFails(i) ==
    /\ Counted
    /\ UNCHANGED <<quotaExceeded, dragging>>
    /\ i \in 1..Len(pending)
    /\ pending[i].kind = "search"
    /\ pending' = RemoveAt(pending, i)
    /\ last' = Did("searchFail", "-")
    /\ UNCHANGED <<nodes, edges, expandedNodes, storage, display,
                   linksAliased, staleLinks, now, hasNetworkData, loading>>

Next ==
    \/ \E n \in Seeds : SelectSeedNode(n)
    \/ \E n \in Direct : ExpandNode(n)
    \/ \E n \in Queried : ExpandNodeFromMenu(n)
    \/ \E i \in 1..Len(pending) : NeighborsSucceed(i)
    \/ \E i \in 1..Len(pending) : NeighborsFail(i)
    \/ \E n \in Queried : ShowRelatedBooks(n)
    \/ \E i \in 1..Len(pending) : BooksSucceed(i)
    \/ \E i \in 1..Len(pending) : BooksFail(i)
    \/ \E n \in Ids : RemoveNode(n)
    \/ ResetNetwork
    \/ \E d \in ReloadDelays, found \in Found : Reload(d, found)

Spec == Init /\ [][Next]_vars

\* The seed search with the handlers that build and empty the graph.
SearchNext ==
    \/ \E q \in Queries : SearchSeedNode(q)
    \/ \E i \in 1..Len(pending) : SearchSucceeds(i)
    \/ \E i \in 1..Len(pending) : SearchFails(i)
    \/ \E n \in Seeds : SelectSeedNode(n)
    \/ \E i \in 1..Len(pending) : NeighborsSucceed(i)
    \/ \E i \in 1..Len(pending) : NeighborsFail(i)
    \/ \E n \in Ids : RemoveNode(n)
    \/ ResetNetwork

SearchSpec == Init /\ [][SearchNext]_vars

\* The handlers of the renderer with the handlers that build the graph.
RendererNext ==
    \/ \E n \in Ids : DragStarted(n)
    \/ \E held \in BOOLEAN : Dragged(held)
    \/ \E held \in BOOLEAN : DragEnded(held)
    \/ Reinitialize
    \/ \E n \in Seeds : SelectSeedNode(n)
    \/ \E i \in 1..Len(pending) : NeighborsSucceed(i)
    \/ \E i \in 1..Len(pending) : NeighborsFail(i)
    \/ \E n \in Queried : ShowRelatedBooks(n)
    \/ \E i \in 1..Len(pending) : BooksSucceed(i)
    \/ \E n \in Ids : RemoveNode(n)
    \/ ResetNetwork
    \/ \E d \in ReloadDelays : Reload(d, "kept")

RendererSpec == Init /\ [][RendererNext]_vars

----------------------------------------------------------------------------
(* Properties *)

ModelsOf(ns) == [i \in 1..Len(ns) |-> NodeModel(ns[i])]

EdgeModelsOf(es) == [i \in 1..Len(es) |-> EdgeModel(es[i])]

View == GraphView(nodes, edges, expandedNodes)

\* The request that settles in this step is the one the handler before sent.
SettlesTheLastSent ==
    /\ last.op \in {"expandNode", "expandNodeFromMenu", "showRelatedBooks"}
    /\ last'.id = last.id
    /\ last'.via = last.via
    /\ pending' = SubSeq(pending, 1, Len(pending) - 1)

\* C1: no two edges of networkData.edges have the same unordered pair of
\* endpoint ids.
C1_NoTwoEdgesBetweenTheSameNodes ==
    \A i, j \in 1..Len(edges) :
        i # j => {edges[i].source, edges[i].target} # {edges[j].source, edges[j].target}

\* C2: both endpoints of every edge are ids of nodes in networkData.nodes.
C2_EdgeEndpointsAreNodes ==
    \A i \in 1..Len(edges) :
        edges[i].source \in NodeIds(nodes) /\ edges[i].target \in NodeIds(nodes)

\* C3: every id in expandedNodes is the id of a node in networkData.nodes.
C3_ExpandedAreNodes == expandedNodes \subseteq NodeIds(nodes)

\* C4: no two nodes of networkData.nodes have the same id.
C4_NodeIdsUnique ==
    \A i, j \in 1..Len(nodes) : i # j => nodes[i].node_id # nodes[j].node_id

\* C4 witness: the response for N1, which lists S1 twice, has been merged
\* into a graph that held S1 already.
C4_Witness ==
    /\ last.op = "neighborsOk"
    /\ last.id = "N1"
    /\ Len(nodes) = 3

\* C5: when the request of expandNode, expandNodeFromMenu or
\* showRelatedBooks fails, nodes, edges and expandedNodes are after the
\* handler what they were before the handler was called.
C5_FailedFetchLeavesGraphAsBeforeTheCall ==
    [][ (last'.op \in {"neighborsFail", "booksFail"} /\ SettlesTheLastSent)
        => GraphView(nodes', edges', expandedNodes') = last.pre ]_vars

\* C6: a request sent before resetNetwork that succeeds after it merges
\* nothing into the empty graph and writes no storage entry.
C6_ResultAfterResetIsDiscarded ==
    [][ (/\ last'.op \in {"neighborsOk", "booksOk"}
         /\ last'.afterReset
         /\ nodes = <<>> /\ edges = <<>> /\ expandedNodes = {})
        => (/\ nodes' = <<>> /\ edges' = <<>> /\ expandedNodes' = {}
            /\ storage' = storage) ]_vars

\* C7: expandNode(n) called right after an expandNode(n) that succeeded, the
\* backend answering the same, leaves nodes, edges and expandedNodes as the
\* first call left them.
C7_SecondExpandAddsNothing ==
    [][ (/\ last'.op = "neighborsOk"
         /\ SettlesTheLastSent
         /\ last.op = "expandNode"
         /\ last.prev = <<"neighborsOk", last.id, "direct">>)
        => GraphView(nodes', edges', expandedNodes') = last.pre ]_vars

\* C8: a merge keeps every node that was in networkData.nodes, with its
\* type, label and definition, whatever the fetched copy of it says.
C8_MergeKeepsExistingNodes ==
    [][ last'.op \in {"neighborsOk", "booksOk"}
        => /\ Len(nodes') >= Len(nodes)
           /\ SubSeq(ModelsOf(nodes'), 1, Len(nodes)) = ModelsOf(nodes) ]_vars

\* C8 witness: the response for N1, which tags N1 "current" and labels it
\* "B", has been merged, and N1 is the "neighbor" labelled "A" it was.
C8_Witness ==
    /\ last.op = "neighborsOk"
    /\ last.id = "N1"
    /\ \E i \in 1..Len(nodes) :
          NodeModel(nodes[i]) = NodeModel(FetchedNode("N1", "neighbor", "A", "dA"))

\* C9: removeNode(x) removes node x, the edges with x as an endpoint and x
\* from expandedNodes, and keeps every other node, edge and expanded id.
C9_RemoveNodeIsLocal ==
    [][ last'.op = "removeNode"
        => LET x == last'.id IN
           /\ ModelsOf(nodes') = SelectSeq(ModelsOf(nodes), LAMBDA m : m.node_id # x)
           /\ EdgeModelsOf(edges') =
                 SelectSeq(EdgeModelsOf(edges), LAMBDA e : e.source # x /\ e.target # x)
           /\ expandedNodes' = expandedNodes \ {x} ]_vars

\* C9 witness: S1, the centre of the star, has been removed: its neighbours
\* N1 and N2 are left without any edge.
C9_Witness ==
    /\ last.op = "removeNode"
    /\ last.id = "S1"
    /\ NodeIds(nodes) = {"N1", "N2"}
    /\ edges = <<>>

\* C10: a page load within the hour that follows a successful expandNode
\* restores the nodes, the edges as endpoint ids with relation type, and
\* the expanded ids the page had.
C10_RestoreGivesBackTheSavedGraph ==
    [][ (/\ last.op = "neighborsOk"
         /\ ~last.threw
         /\ ~last.writeFailed
         /\ last'.op = "restored")
        => GraphView(nodes', edges', expandedNodes') = View ]_vars

\* C10 witness: the graph of seed S1 has been restored right after its
\* expansion, with edge endpoints that are copies of the nodes.
C10_Witness ==
    /\ last.op = "restored"
    /\ last.pre = View
    /\ expandedNodes = {"S1"}
    /\ Len(nodes) = 3
    /\ Len(edges) = 2
    /\ storage.present
    /\ \A i \in 1..Len(storage.edges) : storage.edges[i].sform = "copy"

\* C11: an entry read more than one hour (3,600,000 ms) after it was
\* written is not adopted: the page starts with empty nodes, edges and
\* expandedNodes, and the entry is removed from the storage.
C11_ExpiredEntryIsDiscarded ==
    last.age > oneHour
    => /\ hasNetworkData
       /\ nodes = <<>>
       /\ edges = <<>>
       /\ expandedNodes = {}
       /\ ~storage.present

\* C11 witness: an entry holding a graph has been read after more than an
\* hour, and the page has started empty without it.
C11_Witness ==
    /\ last.op = "startedEmpty"
    /\ last.age > oneHour
    /\ last.pre # NoView
    /\ Len(last.pre.nodes) > 0
    /\ nodes = <<>>
    /\ ~storage.present

\* Every edge of a stored graph state joins two of its nodes.
WellFormed(view) ==
    \A i \in 1..Len(view.edges) :
        /\ \E k \in 1..Len(view.nodes) : view.nodes[k].node_id = view.edges[i].source
        /\ \E k \in 1..Len(view.nodes) : view.nodes[k].node_id = view.edges[i].target

\* C12: a well-formed entry read at most one hour after it was written,
\* exactly 3,600,000 ms included, is adopted (nodes, edges and
\* expandedNodes are the stored ones) and stays in the storage.
C12_EntryWithinTheHourIsAdopted ==
    (/\ last.op \in {"restored", "startedEmpty"}
     /\ last.pre # NoView
     /\ last.age >= 0
     /\ last.age <= oneHour
     /\ WellFormed(last.pre))
    => /\ View = last.pre
       /\ storage.present
       /\ GraphView(storage.nodes, storage.edges, storage.expandedNodes) = last.pre

\* C13: when restoreNetworkState fails on the text it finds (unparseable,
\* or parseable without the node and edge lists), the page is as if no
\* entry had been there: networkData holds two empty lists, expandedNodes
\* is empty, the entry is removed, and expandNode called next runs as on a
\* page started empty.
C13_FailedRestoreIsLikeNoEntry ==
    /\ last.op = "restoreFailed"
       => /\ hasNetworkData
          /\ nodes = <<>>
          /\ edges = <<>>
          /\ expandedNodes = {}
          /\ ~storage.present
    /\ last.prev = <<"restoreFailed", "unparseable", "-">> => ~last.threw
    /\ last.prev = <<"restoreFailed", "noData", "-">> => ~last.threw

\* C14: when sessionStorage.setItem throws in saveNetworkState, the handler
\* still completes without an error reaching its caller, the stored entry
\* is what it was, and nodes, edges and expandedNodes carry the handler's
\* effect: the fetched nodes are merged, the removed node is gone, a failed
\* fetch leaves the graph alone.
C14_WriteFailureIsAbsorbed ==
    [][ last'.writeFailed
        => /\ ~last'.threw
           /\ storage' = storage
           /\ last'.op \in {"neighborsOk", "neighborsFail", "booksOk", "removeNode"}
           /\ last'.op = "neighborsOk"
              => /\ NodeIds(NeighborData(last'.id).nodes) \subseteq NodeIds(nodes')
                 /\ Len(pending') = Len(pending) - 1
                 /\ expandedNodes' = expandedNodes
           /\ last'.op = "booksOk"
              => /\ \A k \in 1..Len(BookData(last'.id)) :
                       BookData(last'.id)[k] \in NodeIds(nodes')
                 /\ Len(pending') = Len(pending) - 1
           /\ last'.op = "neighborsFail"
              => /\ UNCHANGED <<nodes, edges, expandedNodes>>
                 /\ Len(pending') = Len(pending) - 1
           /\ last'.op = "removeNode"
              => /\ last'.id \notin NodeIds(nodes')
                 /\ last'.id \notin expandedNodes'
                 /\ ModelsOf(nodes') =
                       SelectSeq(ModelsOf(nodes), LAMBDA m : m.node_id # last'.id) ]_vars

\* C14 witness: the neighbours of seed S1 have been merged while the write
\* of the state failed; no entry is in the storage.
C14_Witness ==
    /\ last.op = "neighborsOk"
    /\ last.id = "S1"
    /\ last.writeFailed
    /\ ~last.threw
    /\ NodeIds(nodes) = {"S1", "N1", "N2"}
    /\ Len(edges) = 2
    /\ ~storage.present

\* The graph state a page load would start with, the entry being fresh.
Restorable ==
    IF storage.present
    THEN GraphView(storage.nodes, storage.edges, storage.expandedNodes)
    ELSE GraphView(<<>>, <<>>, {})

\* C15: whenever a handler has given up control (at its await or at its
\* end), the stored entry holds the nodes, edges and expandedNodes of the
\* moment, the clearing by selectSeedNode and the marking by
\* expandNodeFromMenu before their fetch included: a page load at any point
\* restores the state in memory.  (Pages whose storage takes writes.)
C15_StoredEntryFollowsEveryChange == ~quotaExceeded => Restorable = View

\* C16: right after resetNetwork nodes, edges and expandedNodes are empty
\* and the storage holds no entry, whatever the state and the entry were.
C16_ResetLeavesNothing ==
    last.op = "resetNetwork"
    => /\ nodes = <<>>
       /\ edges = <<>>
       /\ expandedNodes = {}
       /\ ~storage.present

\* C17: on a page started empty, selectSeedNode("S1") answered with nodes
\* S1, N1, N2 and edges S1-N1, S1-N2 leaves three nodes, two edges and
\* expandedNodes = {S1}; removeNode("N1") then leaves the nodes S1, N2, the
\* one edge S1-N2 and expandedNodes = {S1}.
C17_SeedThenRemoveNeighbour ==
    [][ /\ (/\ steps = 1
            /\ last.op = "selectSeedNode"
            /\ last.id = "S1"
            /\ last'.op = "neighborsOk"
            /\ last'.via = "seed")
           => /\ Len(nodes') = 3
              /\ NodeIds(nodes') = {"S1", "N1", "N2"}
              /\ EdgeModelsOf(edges') =
                    << EdgeModel(FetchedEdge("S1", "N1", "related")),
                       EdgeModel(FetchedEdge("S1", "N2", "related")) >>
              /\ expandedNodes' = {"S1"}
        /\ (/\ steps = 2
            /\ last.op = "neighborsOk"
            /\ last.via = "seed"
            /\ last.id = "S1"
            /\ last'.op = "removeNode"
            /\ last'.id = "N1")
           => /\ Len(nodes') = 2
              /\ NodeIds(nodes') = {"S1", "N2"}
              /\ EdgeModelsOf(edges') =
                    << EdgeModel(FetchedEdge("S1", "N2", "related")) >>
              /\ expandedNodes' = {"S1"} ]_vars

\* C17 witness: the third handler of the page was removeNode("N1"), after
\* selectSeedNode("S1") and its answer; S1, N2 and their edge are left.
C17_Witness ==
    /\ steps = 3
    /\ last.op = "removeNode"
    /\ last.id = "N1"
    /\ ~last.threw
    /\ expandedNodes = {"S1"}
    /\ NodeIds(nodes) = {"S1", "N2"}
    /\ Len(edges) = 1
    /\ edges[1].source = "S1"
    /\ edges[1].target = "N2"

\* networkData.nodes holds node id as the seed ('current') node.
HasSeed(id) ==
    \E i \in 1..Len(nodes) : nodes[i].node_id = id /\ nodes[i].type = "current"

\* C18: once selectSeedNode(n) has reset the state, networkData.nodes
\* holds the seed node n, put there by selectSeedNode before the fetch:
\* it is there while the request is outstanding and after the request has
\* settled, failed or not.
C18_SeedNodeIsThereBeforeTheFetch ==
    /\ last.op = "selectSeedNode" => HasSeed(last.id)
    /\ (/\ steps = 2
        /\ last.via = "seed"
        /\ last.op \in {"neighborsOk", "neighborsFail"})
       => HasSeed(last.id)

\* C19: a node id enters expandedNodes only once its neighbours have been
\* merged: selectSeedNode(n) and expandNodeFromMenu(n) leave n out of
\* expandedNodes when they send their request, so n is not in it while
\* the request is outstanding.
C19_NotExpandedWhileFetching ==
    [][ /\ last'.op = "selectSeedNode" => last'.id \notin expandedNodes'
        /\ last'.op = "expandNodeFromMenu" => last'.id \notin expandedNodes' ]_vars

\* C20: expandNodeFromMenu(n) with n in expandedNodes already does nothing:
\* no request is sent, and nodes, edges, expandedNodes and the stored entry
\* are what they were.
C20_ExpandFromMenuOfExpandedIsNoOp ==
    [][ (/\ last'.op \in {"expandNodeFromMenu", "expandNodeFromMenuSkipped"}
         /\ last'.id \in expandedNodes)
        => UNCHANGED <<nodes, edges, expandedNodes, storage, pending>> ]_vars

\* C20 witness: expandNodeFromMenu has been called for a node of the graph
\* that is in expandedNodes, and no request is outstanding.
C20_Witness ==
    /\ last.op = "expandNodeFromMenuSkipped"
    /\ last.id \in expandedNodes
    /\ HasNode(nodes, last.id)
    /\ pending = <<>>

\* C21: a showRelatedBooks(s) whose request succeeds adds, for every
\* fetched isbn that is no node id yet, one book node of type 'neighbor'
\* and one edge (s, isbn) of relation type subject_book; for an isbn that
\* is a node id already it adds no node and no edge; the nodes and edges
\* there before stay, and expandedNodes is unchanged.
C21_BooksAreAddedOnce ==
    [][ last'.op = "booksOk"
        => LET s == last'.id
               books == BookData(s)
               fresh == {books[k] : k \in 1..Len(books)} \ NodeIds(nodes)
               added == (Len(edges) + 1)..Len(edges')
           IN
           /\ Len(nodes') = Len(nodes) + Cardinality(fresh)
           /\ SubSeq(ModelsOf(nodes'), 1, Len(nodes)) = ModelsOf(nodes)
           /\ Len(edges') = Len(edges) + Cardinality(fresh)
           /\ SubSeq(EdgeModelsOf(edges'), 1, Len(edges)) = EdgeModelsOf(edges)
           /\ \A b \in fresh :
                 /\ Cardinality({k \in 1..Len(nodes') : nodes'[k].node_id = b}) = 1
                 /\ \A k \in 1..Len(nodes') :
                       nodes'[k].node_id = b
                       => nodes'[k].node_type = "book" /\ nodes'[k].type = "neighbor"
                 /\ Cardinality({k \in added :
                                   EdgeModel(edges'[k]) =
                                   EdgeModel(FetchedEdge(s, b, "subject_book"))}) = 1
           /\ expandedNodes' = expandedNodes ]_vars

\* C21 witness: the books of N1 have been fetched into a graph that held
\* B1, the one book of its list, already: no edge leaves N1.
C21_Witness ==
    /\ last.op = "booksOk"
    /\ last.id = "N1"
    /\ ~last.threw
    /\ {"B1", "B2"} \subseteq NodeIds(nodes)
    /\ \A k \in 1..Len(edges) : edges[k].source # "N1"

\* C22: searchSeedNode with an empty or whitespace-only query does nothing:
\* no request is sent, and nodes, edges, expandedNodes and the stored entry
\* are what they were.
C22_BlankQueryIsRejected ==
    [][ (/\ last'.op = "searchSeedNode"
         /\ \A k \in 1..Len(last'.query) : last'.query[k] \in Whitespace)
        => UNCHANGED <<nodes, edges, expandedNodes, storage, pending>> ]_vars

\* C22 witness: searchSeedNode has run on a query of two blanks, on a page
\* with a graph and a stored entry.
C22_Witness ==
    /\ last.op = "searchSeedNode"
    /\ last.query = <<" ", " ">>
    /\ nodes # <<>>
    /\ storage.present
    /\ pending = <<>>

\* C23: the stored entry holds nothing of the layout: its nodes carry no
\* position fields and its edges carry their endpoints as ids, not as node
\* objects.
C23_StoredEntryHasNoLayoutData ==
    storage.present
    => /\ \A k \in 1..Len(storage.nodes) : ~storage.nodes[k].pos
       /\ \A k \in 1..Len(storage.edges) :
             storage.edges[k].sform = "id" /\ storage.edges[k].tform = "id"

\* C24: whenever no request is outstanding, the nodes drawn are the nodes
\* of networkData: every change of the graph is followed by a redraw, so
\* that after a selectSeedNode whose request failed nothing is drawn.
C24_DrawnNodesAreTheNodes == pending = <<>> => display = NodeIds(nodes)

\* C25: the handlers of the renderer (dragstarted, dragged, dragended, and
\* reinitialize with its redraw and wiring of the simulation) leave the
\* graph as it is: the nodes with their type, label and definition, the
\* edges as endpoint ids with relation type, and expandedNodes.
C25_RendererLeavesTheGraph ==
    [][ last'.op \in {"dragstarted", "dragged", "dragended", "reinitialize"}
        => GraphView(nodes', edges', expandedNodes') = View ]_vars

\* C25 witness: a drag of a node of the graph has ended, the node carries
\* the fx its handler wrote, and the graph has its edges.
C25_Witness ==
    /\ last.op = "dragended"
    /\ \E k \in 1..Len(nodes) : nodes[k].node_id = last.id /\ nodes[k].fx = "null"
    /\ Len(edges) >= 2

\* C26: every expandNode or showRelatedBooks call whose request settles
\* completes without throwing to its caller, ends with the loading overlay
\* hidden and, when the request failed, with an error shown.
C26_SettledCallEndsCleanly ==
    [][last'.op \in {"neighborsOk", "neighborsFail", "booksOk", "booksFail"}
       => /\ (last'.op \in {"neighborsOk", "neighborsFail"} => ~last'.threw)
          /\ ~loading'
          /\ (last'.op \in {"neighborsFail", "booksFail"} => last'.error)]_vars

\* The unordered pairs of endpoint ids of the edges.
EndpointPairs(es) == {{es[i].source, es[i].target} : i \in 1..Len(es)}

\* C27: once selectSeedNode(B) and its request have succeeded the graph
\* holds only what B's response supplied, and the response of a neighbours
\* or books request sent before selectSeedNode(B) that arrives after it is
\* not merged into the graph.
C27_SeedLeavesOnlyItsResponse ==
    [][last'.op \in {"neighborsOk", "booksOk"}
       => /\ ( /\ last.op = "selectSeedNode"
               /\ last'.via = "seed"
               /\ last'.id = last.id
               /\ ~last'.threw
               => /\ NodeIds(nodes') = NodeIds(NeighborData(last'.id).nodes)
                  /\ EndpointPairs(edges')
                       = EndpointPairs(NeighborData(last'.id).edges) )
          /\ (last'.afterSeed => nodes' = nodes /\ edges' = edges)]_vars

\* C28: an expandNodeFromMenu(n) called while the request of an earlier
\* expandNodeFromMenu(n) is outstanding sends no second request, so at most
\* one request sent from the menu is outstanding for any node id.
C28_OneMenuFetchPerNode ==
    \A i, j \in 1..Len(pending) :
        ( /\ i # j
          /\ pending[i].via = "menu"
          /\ pending[j].via = "menu" )
        => pending[i].nodeId # pending[j].nodeId

\* C29: every response tagging only the queried node 'current', at most
\* one node of networkData.nodes has type 'current' in every reachable
\* state, overlapping selectSeedNode calls included.
C29_AtMostOneSeedNode ==
    \A i, j \in 1..Len(nodes) :
        (nodes[i].type = "current" /\ nodes[j].type = "current") => i = j

\* The graph after the responses for a and then for b have been merged
\* into the present one.
MergedInOrder(a, b) ==
    LET first == MergeNeighbors(nodes, edges, linksAliased, staleLinks, a)
    IN MergeNeighbors(first.nodes, first.edges, first.aliased, first.stale, b)

\* Two neighbour requests for different nodes are outstanding.
BothOutstanding(i, j) ==
    /\ i < j
    /\ pending[i].kind = "neighbors"
    /\ pending[j].kind = "neighbors"
    /\ pending[i].nodeId # pending[j].nodeId

\* C30: when the requests of expandNode for two different nodes are
\* outstanding and both succeed, the set of node ids and the set of
\* unordered endpoint pairs of the edges are the same whichever response
\* is merged first.
C30_ExpandsCommuteOnIdsAndPairs ==
    \A i, j \in 1..Len(pending) :
        BothOutstanding(i, j)
        => LET ab == MergedInOrder(pending[i].nodeId, pending[j].nodeId)
               ba == MergedInOrder(pending[j].nodeId, pending[i].nodeId)
           IN /\ NodeIds(ab.nodes) = NodeIds(ba.nodes)
              /\ EndpointPairs(ab.edges) = EndpointPairs(ba.edges)

\* C30 witness: two such requests are outstanding over a graph that has
\* nodes, and the two orders give lists that differ (in the order of the
\* nodes or in a first-writer field) while both merges add something.
C30_Witness ==
    \E i, j \in 1..Len(pending) :
        /\ BothOutstanding(i, j)
        /\ nodes # <<>>
        /\ LET ab == MergedInOrder(pending[i].nodeId, pending[j].nodeId)
               ba == MergedInOrder(pending[j].nodeId, pending[i].nodeId)
           IN /\ ModelsOf(ab.nodes) # ModelsOf(ba.nodes)
              /\ EdgeModelsOf(ab.edges) # EdgeModelsOf(ba.edges)
              /\ NodeIds(ab.nodes) # NodeIds(nodes)

====
